---- MODULE Spec2Model ----
(***************************************************************************)
(* A model of main() of src/main.py: the orchestration of the spam and     *)
(* phishing detection pipeline.  One behaviour is a sequence of            *)
(* invocations of main() over a file system that persists between them.    *)
(* The functions main() imports from the package spamandphishingdetection  *)
(* are modelled at their interface; main()'s own control flow, its         *)
(* header-cleaning merge, its fold loop and its exception handler are      *)
(* translated from the source.                                             *)
(***************************************************************************)
EXTENDS Integers, Sequences, FiniteSets, TLC

\* Bounds of the model.
MaxRuns == 3        \* invocations of main()
MaxRows == 2        \* email indices 1..MaxRows
NumFolds == 2       \* K, the number of folds stratified_k_fold_split yields

\* enumerate(folds, start=1)
FirstFold == 1

Indices == 1 .. MaxRows
FoldIds == FirstFold .. (FirstFold + NumFolds - 1)

\* A missing value (NaN / None) of a sender or receiver cell.
Null == <<"null", "", 0>>
\* The index cell of a row that pd.concat had to pad.
NullIndex == 0

RawSender(i) == <<"raw", "sender", i>>
RawReceiver(i) == <<"raw", "receiver", i>>

\* Raw header strings from which no address can be extracted.
MalformedHeaders == {RawSender(2)}

\* The address extraction load_or_save_emails applies to a header cell.
CleanEmail(raw) == IF raw \in MalformedHeaders THEN Null ELSE <<"addr", raw[2], raw[3]>>

\* The CEAS_08 csv files main() may find: every selection and row order of the
\* emails 1..MaxRows.
CeasFiles ==
    UNION {{s \in [1 .. n -> Indices] : \A i, j \in 1 .. n : i # j => s[i] # s[j]} :
           n \in 1 .. MaxRows}

CeasRow(i) == [index |-> i, sender |-> RawSender(i), receiver |-> RawReceiver(i)]

\* The SpamAssassin dataset load_dataset returns.
SpamAssassinRows == [i \in Indices |-> [index |-> i]]

\* Files.
NoTable == [exists |-> FALSE, rows |-> <<>>]
NoArtifact == [exists |-> FALSE, fold |-> 0, ver |-> 0]
ArtifactNames == {"X_train_balanced", "X_test_combined", "y_train_balanced", "y_test"}

NoData == [fold |-> 0, kind |-> "none"]
NoAccuracy == [of |-> NoArtifact, fold |-> 0]

VARIABLES
    run, pc, errors, log,
    df_ceas, df_processed_ceas, df_processed_spamassassin,
    spamassassin_headers_df, ceas_headers_df,
    df_cleaned_ceas_headers, df_cleaned_ceas_headers_merge, missing_count,
    merged_spamassassin_df, merged_ceas_df, combined_df,
    cleaned_ceas_headers_file, featFiles, modelFiles, paramsFiles,
    pipelineRuns, trainRuns,
    folds, enumPos, fold_idx, X_train, X_train_balanced, ensemble_model,
    test_accuracy, fold_test_accuracies, learning_curve_data, plotPos,
    plotCalls, overall

ctlVars == <<run, pc, errors, log>>
dataVars == <<df_ceas, df_processed_ceas, df_processed_spamassassin,
              spamassassin_headers_df, ceas_headers_df,
              df_cleaned_ceas_headers, df_cleaned_ceas_headers_merge, missing_count,
              merged_spamassassin_df, merged_ceas_df, combined_df>>
cacheVars == <<featFiles, modelFiles, paramsFiles>>
histVars == <<pipelineRuns, trainRuns>>
loopVars == <<folds, enumPos, fold_idx, X_train, X_train_balanced, ensemble_model,
              test_accuracy, fold_test_accuracies, learning_curve_data, plotPos,
              plotCalls, overall>>
vars == <<ctlVars, dataVars, cleaned_ceas_headers_file, cacheVars, histVars, loopVars>>

\* The statements of main() in program order.
StageOrder ==
    <<"load_config", "load_data", "preprocess", "feature_engineering",
      "load_or_save_emails", "merge_headers", "save_merged_headers",
      "merge_sa", "verify_sa", "merge_ceas", "verify_ceas", "combine",
      "save_combined", "clean_body", "noise", "split", "loop", "extract",
      "train", "append", "plot", "overall", "returned">>

StageNo(s) == CHOOSE k \in 1 .. Len(StageOrder) : StageOrder[k] = s
Successor(s) == StageOrder[StageNo(s) + 1]

\* The statements inside the try block of main().
TryStages == {StageOrder[k] : k \in 3 .. (Len(StageOrder) - 1)}
\* The statements before it.
OutsideTry == {"load_config", "load_data"}

Event(op, cached) == [op |-> op, fold |-> fold_idx, cached |-> cached]
Logged(op) == \E k \in 1 .. Len(log) : log[k].op = op

LocalsInit ==
    /\ errors = {}
    /\ log = <<>>
    /\ df_ceas = <<>>
    /\ df_processed_ceas = <<>>
    /\ df_processed_spamassassin = <<>>
    /\ spamassassin_headers_df = {}
    /\ ceas_headers_df = {}
    /\ df_cleaned_ceas_headers = <<>>
    /\ df_cleaned_ceas_headers_merge = <<>>
    /\ missing_count = 0
    /\ merged_spamassassin_df = <<>>
    /\ merged_ceas_df = <<>>
    /\ combined_df = <<>>
    /\ folds = <<>>
    /\ enumPos = 0
    /\ fold_idx = 0
    /\ X_train = NoData
    /\ X_train_balanced = NoArtifact
    /\ ensemble_model = NoArtifact
    /\ test_accuracy = NoAccuracy
    /\ fold_test_accuracies = <<>>
    /\ learning_curve_data = <<>>
    /\ plotPos = 0
    /\ plotCalls = <<>>
    /\ overall = [computed |-> FALSE, over |-> <<>>]

\* The locals of a fresh invocation.
LocalsReset ==
    /\ errors' = {}
    /\ log' = <<>>
    /\ df_ceas' = <<>>
    /\ df_processed_ceas' = <<>>
    /\ df_processed_spamassassin' = <<>>
    /\ spamassassin_headers_df' = {}
    /\ ceas_headers_df' = {}
    /\ df_cleaned_ceas_headers' = <<>>
    /\ df_cleaned_ceas_headers_merge' = <<>>
    /\ missing_count' = 0
    /\ merged_spamassassin_df' = <<>>
    /\ merged_ceas_df' = <<>>
    /\ combined_df' = <<>>
    /\ folds' = <<>>
    /\ enumPos' = 0
    /\ fold_idx' = 0
    /\ X_train' = NoData
    /\ X_train_balanced' = NoArtifact
    /\ ensemble_model' = NoArtifact
    /\ test_accuracy' = NoAccuracy
    /\ fold_test_accuracies' = <<>>
    /\ learning_curve_data' = <<>>
    /\ plotPos' = 0
    /\ plotCalls' = <<>>
    /\ overall' = [computed |-> FALSE, over |-> <<>>]

Init ==
    /\ run = 0
    /\ pc = "idle"
    /\ LocalsInit
    /\ cleaned_ceas_headers_file = NoTable
    /\ featFiles = [k \in FoldIds |-> [a \in ArtifactNames |-> NoArtifact]]
    /\ modelFiles = [k \in FoldIds |-> NoArtifact]
    /\ paramsFiles = [k \in FoldIds |-> NoArtifact]
    /\ pipelineRuns = [f \in FoldIds |-> 0]
    /\ trainRuns = [f \in FoldIds |-> 0]

(***************************************************************************)
(* Library functions of the package, at their interface.                   *)
(***************************************************************************)

RECURSIVE RemoveDuplicates(_, _)
RemoveDuplicates(rows, seen) ==
    IF rows = <<>> THEN <<>>
    ELSE IF Head(rows).index \in seen
         THEN RemoveDuplicates(Tail(rows), seen)
         ELSE <<Head(rows)>> \o RemoveDuplicates(Tail(rows), seen \cup {Head(rows).index})

\* DatasetProcessor.process_dataset: the records in file order, duplicates removed.
process_dataset(df) == RemoveDuplicates(df, {})

\* The cleaned sender/receiver table load_or_save_emails builds from a table.
clean_headers(df) ==
    [k \in 1 .. Len(df) |->
        [sender |-> CleanEmail(df[k].sender), receiver |-> CleanEmail(df[k].receiver)]]

\* merge_dataframes(base, features, on_column='index'): the rows of base that have
\* a header-feature row.
merge_dataframes(base, features) == SelectSeq(base, LAMBDA r : r.index \in features)

\* verify_merged_dataframe's test: the merged table has the reference's row count.
verify_merged_ok(merged, reference) == Len(merged) = Len(reference)

\* get_model_path(config, k), get_params_path(config, k): one path per fold index.
get_model_path(k) == k
get_params_path(k) == k

ModelAndParamsExist(model_path, params_path) ==
    modelFiles[model_path].exists /\ paramsFiles[params_path].exists

AllFourExist(key) == \A a \in ArtifactNames : featFiles[key][a].exists

(***************************************************************************)
(* main(): the exception handler and the statements before the fold loop.  *)
(***************************************************************************)

\* A handler that logs the error and goes on with the next statement.
ExceptHandler_Continue(stage, kind) ==
    /\ errors' = errors \cup {[stage |-> stage, kind |-> kind, fold |-> fold_idx]}
    /\ pc' = Successor(stage)
    /\ UNCHANGED cacheVars

\* A handler that clears the per-fold files before it returns.
ExceptHandler_Cleanup(stage, kind) ==
    /\ errors' = errors \cup {[stage |-> stage, kind |-> kind, fold |-> fold_idx]}
    /\ pc' = "returned"
    /\ featFiles' = [k \in FoldIds |-> [a \in ArtifactNames |-> NoArtifact]]
    /\ modelFiles' = [k \in FoldIds |-> NoArtifact]
    /\ paramsFiles' = [k \in FoldIds |-> NoArtifact]

\* except Exception as e: logging.error(...); return
ExceptHandler(stage, kind) ==
    /\ errors' = errors \cup {[stage |-> stage, kind |-> kind, fold |-> fold_idx]}
    /\ pc' = "returned"
    /\ UNCHANGED cacheVars

Go(stage, op) ==
    /\ pc' = Successor(stage)
    /\ log' = Append(log, Event(op, FALSE))
    /\ UNCHANGED <<run, errors>>

\* One more invocation of main(): its locals are fresh, the files are as left.
StartRun ==
    /\ pc \in {"idle", "returned", "propagated"}
    /\ run < MaxRuns
    /\ run' = run + 1
    /\ pc' = "load_config"
    /\ LocalsReset
    /\ UNCHANGED <<cleaned_ceas_headers_file, cacheVars, histVars>>

LoadConfig ==
    /\ pc = "load_config"
    /\ pc' = Successor("load_config")
    /\ UNCHANGED <<run, errors, log, dataVars, cleaned_ceas_headers_file, cacheVars,
                   histVars, loopVars>>

LoadData ==
    /\ pc = "load_data"
    /\ \E f \in CeasFiles : df_ceas' = [k \in 1 .. Len(f) |-> CeasRow(f[k])]
    /\ pc' = Successor("load_data")
    /\ UNCHANGED <<run, errors, log, df_processed_ceas, df_processed_spamassassin,
                   spamassassin_headers_df, ceas_headers_df, df_cleaned_ceas_headers,
                   df_cleaned_ceas_headers_merge, missing_count, merged_spamassassin_df,
                   merged_ceas_df, combined_df, cleaned_ceas_headers_file, cacheVars,
                   histVars, loopVars>>

\* An error in load_config, get_file_paths, read_csv or load_dataset: these calls
\* stand before the try statement, so the exception leaves main().
RaiseOutsideTry ==
    /\ pc \in OutsideTry
    /\ pc' = "propagated"
    /\ UNCHANGED <<run, errors, log, dataVars, cleaned_ceas_headers_file, cacheVars,
                   histVars, loopVars>>

\* An error raised by any statement of the try block.
RaiseInTry ==
    /\ pc \in TryStages
    /\ ExceptHandler(pc, "RuntimeError")
    /\ UNCHANGED <<run, log, dataVars, cleaned_ceas_headers_file, histVars, loopVars>>

Preprocess ==
    /\ pc = "preprocess"
    /\ df_processed_spamassassin' = process_dataset(SpamAssassinRows)
    /\ df_processed_ceas' = process_dataset(df_ceas)
    /\ Go("preprocess", "preprocess")
    /\ UNCHANGED <<df_ceas, spamassassin_headers_df, ceas_headers_df,
                   df_cleaned_ceas_headers, df_cleaned_ceas_headers_merge, missing_count,
                   merged_spamassassin_df, merged_ceas_df, combined_df,
                   cleaned_ceas_headers_file, cacheVars, histVars, loopVars>>

\* feature_engineering returns one header-feature table per source; a table may
\* lack the row of one email index (0: none lacking).
FeatureEngineering ==
    /\ pc = "feature_engineering"
    /\ \E ms \in {0} \cup Indices :
         spamassassin_headers_df' =
            {df_processed_spamassassin[k].index : k \in 1 .. Len(df_processed_spamassassin)} \ {ms}
    /\ \E mc \in {0} \cup Indices :
         ceas_headers_df' =
            {df_processed_ceas[k].index : k \in 1 .. Len(df_processed_ceas)} \ {mc}
    /\ Go("feature_engineering", "feature_engineering")
    /\ UNCHANGED <<df_ceas, df_processed_ceas, df_processed_spamassassin,
                   df_cleaned_ceas_headers, df_cleaned_ceas_headers_merge, missing_count,
                   merged_spamassassin_df, merged_ceas_df, combined_df,
                   cleaned_ceas_headers_file, cacheVars, histVars, loopVars>>

\* load_or_save_emails(df_processed_ceas, path): the saved table if the file is
\* there, else the table cleaned now, which is saved.
LoadOrSaveEmails ==
    /\ pc = "load_or_save_emails"
    /\ IF cleaned_ceas_headers_file.exists
       THEN /\ df_cleaned_ceas_headers' = cleaned_ceas_headers_file.rows
            /\ UNCHANGED cleaned_ceas_headers_file
       ELSE /\ df_cleaned_ceas_headers' = clean_headers(df_processed_ceas)
            /\ cleaned_ceas_headers_file' =
                  [exists |-> TRUE, rows |-> clean_headers(df_processed_ceas)]
    /\ Go("load_or_save_emails", "load_or_save_emails")
    /\ UNCHANGED <<df_ceas, df_processed_ceas, df_processed_spamassassin,
                   spamassassin_headers_df, ceas_headers_df,
                   df_cleaned_ceas_headers_merge, missing_count,
                   merged_spamassassin_df, merged_ceas_df, combined_df,
                   cacheVars, histVars, loopVars>>

\* df.drop(columns=['sender', 'receiver'])
DropSenderReceiver(df) == [k \in 1 .. Len(df) |-> [index |-> df[k].index]]

Max(a, b) == IF a >= b THEN a ELSE b

\* A concat that drops the rows with a null sender or receiver.
ConcatAxis1_DropNull(a, b) ==
    SelectSeq([k \in 1 .. Max(Len(a), Len(b)) |->
                  [sender |-> IF k <= Len(a) THEN a[k].sender ELSE Null,
                   receiver |-> IF k <= Len(a) THEN a[k].receiver ELSE Null,
                   index |-> IF k <= Len(b) THEN b[k].index ELSE NullIndex]],
              LAMBDA r : r.sender # Null /\ r.receiver # Null)

\* pd.concat([a.reset_index(drop=True), b.reset_index(drop=True)], axis=1): row k of
\* the result is row k of a beside row k of b; a table that is shorter is padded.
ConcatAxis1(a, b) ==
    [k \in 1 .. Max(Len(a), Len(b)) |->
        [sender |-> IF k <= Len(a) THEN a[k].sender ELSE Null,
         receiver |-> IF k <= Len(a) THEN a[k].receiver ELSE Null,
         index |-> IF k <= Len(b) THEN b[k].index ELSE NullIndex]]

\* The rows whose sender or receiver is null.
MissingRows(df) == SelectSeq(df, LAMBDA r : r.sender = Null \/ r.receiver = Null)

MergeHeaders ==
    /\ pc = "merge_headers"
    /\ IF Len(df_cleaned_ceas_headers) # Len(df_processed_ceas)
       THEN /\ ExceptHandler("merge_headers", "ValueError")
            /\ UNCHANGED <<run, log, df_processed_ceas, df_cleaned_ceas_headers_merge,
                           missing_count>>
       ELSE /\ df_processed_ceas' = DropSenderReceiver(df_processed_ceas)
            /\ df_cleaned_ceas_headers_merge' =
                  ConcatAxis1(df_cleaned_ceas_headers, df_processed_ceas')
            /\ missing_count' = Len(MissingRows(df_cleaned_ceas_headers_merge'))
            /\ Go("merge_headers", "concat_headers")
            /\ UNCHANGED cacheVars
    /\ UNCHANGED <<df_ceas, df_processed_spamassassin, spamassassin_headers_df,
                   ceas_headers_df, df_cleaned_ceas_headers, merged_spamassassin_df,
                   merged_ceas_df, combined_df, cleaned_ceas_headers_file, histVars,
                   loopVars>>

SaveMergedHeaders ==
    /\ pc = "save_merged_headers"
    /\ IF Len(df_cleaned_ceas_headers_merge) # Len(df_processed_ceas)
       THEN /\ ExceptHandler("save_merged_headers", "ValueError")
            /\ UNCHANGED <<run, log>>
       ELSE /\ Go("save_merged_headers", "save_merged_headers")
            /\ UNCHANGED cacheVars
    /\ UNCHANGED <<dataVars, cleaned_ceas_headers_file, histVars, loopVars>>

MergeSA ==
    /\ pc = "merge_sa"
    /\ merged_spamassassin_df' =
          merge_dataframes(df_processed_spamassassin, spamassassin_headers_df)
    /\ Go("merge_sa", "merge_sa")
    /\ UNCHANGED <<df_ceas, df_processed_ceas, df_processed_spamassassin,
                   spamassassin_headers_df, ceas_headers_df, df_cleaned_ceas_headers,
                   df_cleaned_ceas_headers_merge, missing_count, merged_ceas_df,
                   combined_df, cleaned_ceas_headers_file, cacheVars, histVars, loopVars>>

VerifySA ==
    /\ pc = "verify_sa"
    /\ IF verify_merged_ok(merged_spamassassin_df, df_processed_spamassassin)
       THEN /\ Go("verify_sa", "save_merged_sa")
            /\ UNCHANGED cacheVars
       ELSE /\ ExceptHandler("verify_sa", "IntegrityError")
            /\ UNCHANGED <<run, log>>
    /\ UNCHANGED <<dataVars, cleaned_ceas_headers_file, histVars, loopVars>>

MergeCEAS ==
    /\ pc = "merge_ceas"
    /\ merged_ceas_df' = merge_dataframes(df_cleaned_ceas_headers_merge, ceas_headers_df)
    /\ Go("merge_ceas", "merge_ceas")
    /\ UNCHANGED <<df_ceas, df_processed_ceas, df_processed_spamassassin,
                   spamassassin_headers_df, ceas_headers_df, df_cleaned_ceas_headers,
                   df_cleaned_ceas_headers_merge, missing_count, merged_spamassassin_df,
                   combined_df, cleaned_ceas_headers_file, cacheVars, histVars, loopVars>>

VerifyCEAS ==
    /\ pc = "verify_ceas"
    /\ IF verify_merged_ok(merged_ceas_df, df_cleaned_ceas_headers_merge)
       THEN /\ Go("verify_ceas", "save_merged_ceas")
            /\ UNCHANGED cacheVars
       ELSE /\ ExceptHandler("verify_ceas", "IntegrityError")
            /\ UNCHANGED <<run, log>>
    /\ UNCHANGED <<dataVars, cleaned_ceas_headers_file, histVars, loopVars>>

\* combine_dataframes and verify_combined_dataframe
Combine ==
    /\ pc = "combine"
    /\ combined_df' =
          [k \in 1 .. Len(merged_spamassassin_df) |->
              [source |-> "spam_assassin", index |-> merged_spamassassin_df[k].index]]
          \o [k \in 1 .. Len(merged_ceas_df) |->
              [source |-> "ceas_08", index |-> merged_ceas_df[k].index]]
    /\ Go("combine", "combine")
    /\ UNCHANGED <<df_ceas, df_processed_ceas, df_processed_spamassassin,
                   spamassassin_headers_df, ceas_headers_df, df_cleaned_ceas_headers,
                   df_cleaned_ceas_headers_merge, missing_count, merged_spamassassin_df,
                   merged_ceas_df, cleaned_ceas_headers_file, cacheVars, histVars,
                   loopVars>>

SaveCombined ==
    /\ pc = "save_combined"
    /\ Go("save_combined", "save_combined")
    /\ UNCHANGED <<dataVars, cleaned_ceas_headers_file, cacheVars, histVars, loopVars>>

\* load_or_clean_data, combine_columns_for_cleaning, verify, save
CleanBody ==
    /\ pc = "clean_body"
    /\ Go("clean_body", "clean_body")
    /\ UNCHANGED <<dataVars, cleaned_ceas_headers_file, cacheVars, histVars, loopVars>>

NoiseInjection ==
    /\ pc = "noise"
    /\ Go("noise", "noise")
    /\ UNCHANGED <<dataVars, cleaned_ceas_headers_file, cacheVars, histVars, loopVars>>

\* stratified_k_fold_split: K folds; the lists of the loop start empty.
Split ==
    /\ pc = "split"
    /\ folds' = [k \in 1 .. NumFolds |-> [fold |-> FirstFold + k - 1, kind |-> "raw"]]
    /\ fold_test_accuracies' = <<>>
    /\ learning_curve_data' = <<>>
    /\ Go("split", "split")
    /\ UNCHANGED <<dataVars, cleaned_ceas_headers_file, cacheVars, histVars, enumPos,
                   fold_idx, X_train, X_train_balanced, ensemble_model, test_accuracy,
                   plotPos, plotCalls, overall>>

(***************************************************************************)
(* main(): the fold loop.                                                  *)
(***************************************************************************)

\* An enumeration of the folds from the last to the first.
EnumerateItem_Reversed(pos) ==
    [fold_idx |-> FirstFold + Len(folds) - pos, X_train |-> folds[Len(folds) - pos + 1]]

\* for fold_idx, (X_train, ...) in enumerate(folds, start=1): the item at position pos.
EnumerateItem(pos) == [fold_idx |-> FirstFold + pos - 1, X_train |-> folds[pos]]

\* A call that passes the same fold index for every fold.
ExtractFoldArg_First == FirstFold

\* The fold index main() passes to run_pipeline_or_load.
ExtractFoldArg == fold_idx

\* Paths that are the same for every fold.
ModelPathArg_First == FirstFold

\* The fold index main() passes to get_model_path and get_params_path.
ModelPathArg == fold_idx

\* The head of the for statement: the next fold, or the end of the loop.
LoopNext ==
    /\ pc = "loop"
    /\ IF enumPos < Len(folds)
       THEN /\ enumPos' = enumPos + 1
            /\ fold_idx' = EnumerateItem(enumPos + 1).fold_idx
            /\ X_train' = EnumerateItem(enumPos + 1).X_train
            /\ pc' = "extract"
       ELSE /\ pc' = "overall"
            /\ UNCHANGED <<enumPos, fold_idx, X_train>>
    /\ UNCHANGED <<run, errors, log, dataVars, cleaned_ceas_headers_file, cacheVars,
                   histVars, folds, X_train_balanced, ensemble_model, test_accuracy,
                   fold_test_accuracies, learning_curve_data, plotPos, plotCalls,
                   overall>>

\* run_pipeline_or_load(fold_idx, X_train, ..., pipeline, dir): the four saved
\* outputs if all four files of the fold are there, else the pipeline's outputs,
\* each of which is saved.
run_pipeline_or_load(key, data) ==
    IF AllFourExist(key)
    THEN /\ X_train_balanced' = featFiles[key]["X_train_balanced"]
         /\ UNCHANGED <<featFiles, pipelineRuns>>
    ELSE LET out == [exists |-> TRUE, fold |-> data.fold,
                     ver |-> pipelineRuns[data.fold] + 1]
         IN /\ pipelineRuns' = [pipelineRuns EXCEPT ![data.fold] = @ + 1]
            /\ featFiles' = [featFiles EXCEPT ![key] = [a \in ArtifactNames |-> out]]
            /\ X_train_balanced' = out

Extract ==
    /\ pc = "extract"
    /\ run_pipeline_or_load(ExtractFoldArg, X_train)
    /\ pc' = Successor("extract")
    /\ log' = Append(log, Event("extract", AllFourExist(ExtractFoldArg)))
    /\ UNCHANGED <<run, errors>>
    /\ UNCHANGED <<dataVars, cleaned_ceas_headers_file, modelFiles, paramsFiles,
                   trainRuns, folds, enumPos, fold_idx, X_train, ensemble_model,
                   test_accuracy, fold_test_accuracies, learning_curve_data, plotPos,
                   plotCalls, overall>>

\* model_training(X, y, X_test, y_test, model_path, params_path): the saved model,
\* evaluated again, if the model file and the hyperparameters file are there, else
\* a model searched for and fitted now, which is saved with its hyperparameters.
model_training(features, model_path, params_path) ==
    IF ModelAndParamsExist(model_path, params_path)
    THEN /\ ensemble_model' = modelFiles[model_path]
         /\ test_accuracy' = [of |-> modelFiles[model_path], fold |-> features.fold]
         /\ UNCHANGED <<modelFiles, paramsFiles, trainRuns>>
    ELSE LET fitted == [exists |-> TRUE, fold |-> features.fold,
                        ver |-> trainRuns[features.fold] + 1]
         IN /\ trainRuns' = [trainRuns EXCEPT ![features.fold] = @ + 1]
            /\ modelFiles' = [modelFiles EXCEPT ![model_path] = fitted]
            /\ paramsFiles' = [paramsFiles EXCEPT ![params_path] = fitted]
            /\ ensemble_model' = fitted
            /\ test_accuracy' = [of |-> fitted, fold |-> features.fold]

Train ==
    /\ pc = "train"
    /\ model_training(X_train_balanced, get_model_path(ModelPathArg),
                      get_params_path(ModelPathArg))
    /\ pc' = Successor("train")
    /\ log' = Append(log, Event("train", ModelAndParamsExist(get_model_path(ModelPathArg),
                                                             get_params_path(ModelPathArg))))
    /\ UNCHANGED <<run, errors>>
    /\ UNCHANGED <<dataVars, cleaned_ceas_headers_file, featFiles, pipelineRuns,
                   folds, enumPos, fold_idx, X_train, X_train_balanced,
                   fold_test_accuracies, learning_curve_data, plotPos, plotCalls,
                   overall>>

\* fold_test_accuracies.append(test_accuracy); learning_curve_data.append(...)
AppendAccuracy ==
    /\ pc = "append"
    /\ fold_test_accuracies' = Append(fold_test_accuracies, test_accuracy)
    /\ learning_curve_data' =
          Append(learning_curve_data,
                 [X |-> X_train_balanced, model |-> ensemble_model, fold_idx |-> fold_idx])
    /\ plotPos' = 1
    /\ Go("append", "append")
    /\ UNCHANGED <<dataVars, cleaned_ceas_headers_file, cacheVars, histVars, folds,
                   enumPos, fold_idx, X_train, X_train_balanced, ensemble_model,
                   test_accuracy, plotCalls, overall>>

\* One iteration of the for statement over learning_curve_data, which stands in
\* the body of the fold loop and binds X_train, y_train, ensemble_model and
\* fold_idx anew.
Plot ==
    /\ pc = "plot"
    /\ plotPos <= Len(learning_curve_data)
    /\ LET item == learning_curve_data[plotPos]
       IN /\ X_train' = [fold |-> item.X.fold, kind |-> "balanced"]
          /\ ensemble_model' = item.model
          /\ fold_idx' = item.fold_idx
          /\ plotCalls' = Append(plotCalls, [X |-> item.X, estimator |-> item.model,
                                             title |-> item.fold_idx,
                                             iteration |-> fold_idx])
          /\ log' = Append(log, [op |-> "plot", fold |-> item.fold_idx, cached |-> FALSE])
    /\ plotPos' = plotPos + 1
    /\ pc' = IF plotPos = Len(learning_curve_data) THEN "loop" ELSE "plot"
    /\ UNCHANGED <<run, errors, dataVars, cleaned_ceas_headers_file, cacheVars,
                   histVars, folds, enumPos, X_train_balanced, test_accuracy,
                   fold_test_accuracies, learning_curve_data, overall>>

\* mean_test_accuracy = np.mean(fold_test_accuracies), logged; main() returns.
Overall ==
    /\ pc = "overall"
    /\ overall' = [computed |-> TRUE, over |-> fold_test_accuracies]
    /\ Go("overall", "overall")
    /\ UNCHANGED <<dataVars, cleaned_ceas_headers_file, cacheVars, histVars, folds,
                   enumPos, fold_idx, X_train, X_train_balanced, ensemble_model,
                   test_accuracy, fold_test_accuracies, learning_curve_data, plotPos,
                   plotCalls>>

Next ==
    \/ StartRun
    \/ LoadConfig
    \/ LoadData
    \/ RaiseOutsideTry
    \/ RaiseInTry
    \/ Preprocess
    \/ FeatureEngineering
    \/ LoadOrSaveEmails
    \/ MergeHeaders
    \/ SaveMergedHeaders
    \/ MergeSA
    \/ VerifySA
    \/ MergeCEAS
    \/ VerifyCEAS
    \/ Combine
    \/ SaveCombined
    \/ CleanBody
    \/ NoiseInjection
    \/ Split
    \/ LoopNext
    \/ Extract
    \/ Train
    \/ AppendAccuracy
    \/ Plot
    \/ Overall

Spec == Init /\ [][Next]_vars

(***************************************************************************)
(* The claims.                                                             *)
(***************************************************************************)

\* Fold g went through extraction, training and the append in this invocation.
Completed(g) == \E k \in 1 .. Len(log) : log[k].op = "append" /\ log[k].fold = g

ErrorAt(stages) == \E e \in errors : e.stage \in stages

C2_TrainingFailureSkipsFold ==
    \A e \in errors :
        (e.stage = "train" /\ pc = "returned") =>
            /\ \A k \in 1 .. Len(fold_test_accuracies) :
                  fold_test_accuracies[k].fold # e.fold
            /\ \A g \in FoldIds : g > e.fold => Completed(g)
            /\ overall.computed

\* C3: no exception leaves main().
C3_NothingPropagates == pc # "propagated"

\* C4: extraction, training and the append happen fold after fold from the
\* first fold on, in this order within a fold.
FoldOps == <<"extract", "train", "append">>
FoldEvents == SelectSeq(log, LAMBDA e : e.op \in {"extract", "train", "append"})
C4_FoldOrder ==
    \A k \in 1 .. Len(FoldEvents) :
        /\ FoldEvents[k].op = FoldOps[((k - 1) % Len(FoldOps)) + 1]
        /\ FoldEvents[k].fold = FirstFold + ((k - 1) \div Len(FoldOps))

\* C4, its case: every fold has been processed.
C4_Witness == Len(FoldEvents) = Len(FoldOps) * NumFolds /\ NumFolds >= 2

\* C5: after verify_merged_dataframe has raised for a source, nothing
\* downstream happens in that invocation.
DownstreamOps ==
    {"combine", "save_combined", "clean_body", "noise", "split", "extract",
     "train", "append", "plot", "overall"}
IntegrityErrorRaised ==
    \E e \in errors : e.kind = "IntegrityError" /\ e.stage \in {"verify_sa", "verify_ceas"}
C5_VerifyFailureStopsRun ==
    IntegrityErrorRaised =>
        /\ \A k \in 1 .. Len(log) : log[k].op \notin DownstreamOps
        /\ combined_df = <<>>
        /\ folds = <<>>

\* C5, its case: the CEAS_08 verification has raised and main() has returned.
C5_Witness ==
    /\ pc = "returned"
    /\ \E e \in errors : e.kind = "IntegrityError" /\ e.stage = "verify_ceas"

BelongsToIndex(r) ==
    /\ r.sender = CleanEmail(RawSender(r.index))
    /\ r.receiver = CleanEmail(RawReceiver(r.index))
C7_SenderReceiverByIndex ==
    /\ \A k \in 1 .. Len(df_cleaned_ceas_headers_merge) :
          BelongsToIndex(df_cleaned_ceas_headers_merge[k])
    /\ \A k \in 1 .. Len(merged_ceas_df) : BelongsToIndex(merged_ceas_df[k])

\* C8: no step taken after a fold was completed in an invocation, a failure and
\* the return of main() included, changes the feature, model or
\* hyperparameters files of that fold.
C8_CompletedFoldsKept ==
    [][\A g \in FoldIds :
          Completed(g) =>
              /\ featFiles'[g] = featFiles[g]
              /\ modelFiles'[get_model_path(g)] = modelFiles[get_model_path(g)]
              /\ paramsFiles'[get_params_path(g)] = paramsFiles[get_params_path(g)]]_vars

\* C8, its case: main() has returned after a failure in a later fold, and the
\* files of the first fold are there.
C8_Witness ==
    /\ pc = "returned"
    /\ \E e \in errors : e.stage \in {"extract", "train"} /\ e.fold > FirstFold
    /\ Completed(FirstFold)
    /\ AllFourExist(FirstFold)
    /\ ModelAndParamsExist(get_model_path(FirstFold), get_params_path(FirstFold))

\* C9: the header-cleaning merge keeps every row of the processed CEAS_08
\* table, rows with a null sender or receiver are counted and kept, and a
\* cleaned-headers table of another length ends the invocation with an error
\* before anything is merged or written.
C9_MergeKeepsRows ==
    /\ Logged("concat_headers") =>
          /\ Len(df_cleaned_ceas_headers_merge) = Len(df_processed_ceas)
          /\ \A k \in 1 .. Len(df_processed_ceas) :
                df_cleaned_ceas_headers_merge[k].index = df_processed_ceas[k].index
          /\ missing_count =
                Cardinality({k \in 1 .. Len(df_cleaned_ceas_headers_merge) :
                                \/ df_cleaned_ceas_headers_merge[k].sender = Null
                                \/ df_cleaned_ceas_headers_merge[k].receiver = Null})
    /\ Logged("save_merged_headers") => Logged("concat_headers")
    /\ (/\ Logged("load_or_save_emails")
        /\ Len(df_cleaned_ceas_headers) # Len(df_processed_ceas)) =>
          /\ pc \in {"merge_headers", "returned"}
          /\ pc = "returned" => ErrorAt({"merge_headers"})
          /\ ~Logged("concat_headers")
          /\ ~Logged("save_merged_headers")
          /\ df_cleaned_ceas_headers_merge = <<>>

\* C9, its case: a merged table with a null sender has been written.
C9_Witness == Logged("save_merged_headers") /\ missing_count > 0

\* C10: in a complete run plot_learning_curve is called exactly once for every
\* fold, with the features, the model and the index of that fold.
PlotsOf(f) == {k \in 1 .. Len(plotCalls) : plotCalls[k].title = f}
C10_PlotOncePerFold ==
    /\ \A k \in 1 .. Len(plotCalls) :
          /\ plotCalls[k].X.fold = plotCalls[k].title
          /\ plotCalls[k].estimator.fold = plotCalls[k].title
    /\ \A f \in FoldIds : Cardinality(PlotsOf(f)) <= 1
    /\ overall.computed => \A f \in FoldIds : Cardinality(PlotsOf(f)) = 1

====
